---- MODULE Spec2Model ----
(***************************************************************************)
(* Model of 3_state_cellular_automata.py: the rule decoder                 *)
(* three_state_lookup_table, the field generator                           *)
(* three_state_spacetime_field and the stateful simulator three_state_CA.  *)
(*                                                                         *)
(* Python lists are objects on a heap: `heap` is a sequence of list        *)
(* contents and a list reference is an index into it, so that two names    *)
(* for one list (line 174, 254, 255) and a copy (line 175, 256) differ.    *)
(***************************************************************************)
EXTENDS Integers, Sequences, FiniteSets, TLC

VARIABLES
    pc,                     \* where the caller's script is
    rule_number,            \* the rule_number argument the caller passes
    arg,                    \* the time_steps argument of the last call, as passed
    raised,                 \* the exception the last call raised, or "none"
    heap,                   \* the list objects: heap[id] is a list's contents
    lookup,                 \* result of a direct three_state_lookup_table call
    field,                  \* the list returned by three_state_spacetime_field
    lookup_table,           \* self.lookup_table
    initial,                \* self.initial
    spacetime,              \* self.spacetime (a list of list references)
    current_configuration,  \* self.current_configuration (a list reference)
    self_length,            \* self._length
    time_steps,             \* evolve's local time_steps after int()
    t,                      \* evolve's loop counter
    c0,                     \* contents of the caller's list when it was passed
    total,                  \* steps asked of evolve so far by accepted calls
    mutations,              \* how often the caller has written to its list
    flat_lookup_table,      \* lookup_table of the script without functions
    field_again             \* the list a second, equal call of the function returns

vars == <<pc, rule_number, arg, raised, heap, lookup, field, lookup_table,
          initial, spacetime, current_configuration, self_length, time_steps,
          t, c0, total, mutations, flat_lookup_table, field_again>>

(***************************************************************************)
(* Bounds of the model.                                                    *)
(***************************************************************************)
MaxLen == 3             \* longest initial condition
MaxSteps == 2           \* largest integer time_steps of one call
MaxTotal == 3           \* most steps one simulator is asked for in all
MaxMutations == 1       \* writes of the caller to its list

(***************************************************************************)
(* Program constants.                                                      *)
(***************************************************************************)
MaxRule == 19682        \* upper limit of rule_number (line 120)
Width == 9              \* width of the padded ternary string (line 133)
InitialCondition == 1   \* the reference held by the caller's initial_condition

NoValue == "none"
NoTable == <<>>

\* Cell values a caller may put in a list: the three states and one other.
CellValues == {0, 1, 2, 3}

RECURSIVE ListsOfLen(_)
ListsOfLen(n) ==
    IF n = 0 THEN {<<>>}
    ELSE {Append(s, v) : s \in ListsOfLen(n - 1), v \in CellValues}

Lists == UNION {ListsOfLen(n) : n \in 0..MaxLen}

\* Rule numbers the caller passes in the simulation runs.
RuleArgs == {-1, 0, 8711, MaxRule, MaxRule + 1}

\* Every rule number, and the two integers next to the range.
AllRuleArgs == (-1)..(MaxRule + 1)

(***************************************************************************)
(* Python values passed as time_steps.  A float is val/2; cls tells a      *)
(* finite number from nan and inf, and a numeral string from other text.   *)
(***************************************************************************)
PyIntVal(n) == [type |-> "int", cls |-> "finite", val |-> n]
PyFloatVal(halves) == [type |-> "float", cls |-> "finite", val |-> halves]
PyNan == [type |-> "float", cls |-> "nan", val |-> 0]
PyInf == [type |-> "float", cls |-> "inf", val |-> 0]
PyNumeral(n) == [type |-> "str", cls |-> "numeral", val |-> n]
PyText == [type |-> "str", cls |-> "text", val |-> 0]
NoArg == [type |-> "none", cls |-> "none", val |-> 0]   \* no call made yet

TimeStepsArgs ==
    {PyIntVal(n) : n \in (-1)..MaxSteps}
        \cup {PyFloatVal(3), PyFloatVal(-1), PyNan, PyInf, PyNumeral(2), PyText}

\* time_steps < 0 (lines 157, 268): ordering against an int is defined for
\* int and float only; a str raises TypeError.
LessThanZero(v) ==
    IF v.type \in {"int", "float"}
    THEN IF v.cls = "finite" THEN (IF v.val < 0 THEN "True" ELSE "False")
         ELSE "False"
    ELSE "TypeError"

\* int(time_steps) (lines 161, 272): truncation toward zero for a float,
\* ValueError for nan and for text, OverflowError for inf, TypeError for a
\* value of no number or string type.
PyInt(v) ==
    CASE v.type = "int" -> [raised |-> "none", val |-> v.val]
      [] v.type = "float" /\ v.cls = "finite" ->
            [raised |-> "none",
             val |-> IF v.val >= 0 THEN v.val \div 2 ELSE -((-v.val) \div 2)]
      [] v.type = "float" /\ v.cls = "nan" -> [raised |-> "ValueError", val |-> 0]
      [] v.type = "float" /\ v.cls = "inf" -> [raised |-> "OverflowError", val |-> 0]
      [] v.type = "str" /\ v.cls = "numeral" -> [raised |-> "none", val |-> v.val]
      [] v.type = "str" /\ v.cls = "text" -> [raised |-> "ValueError", val |-> 0]
      [] OTHER -> [raised |-> "TypeError", val |-> 0]

\* Lines 157-163 and 268-274: the check of time_steps and its conversion.
CheckTimeSteps(v) ==
    LET lt == LessThanZero(v) IN
    IF lt = "TypeError" THEN [raised |-> "TypeError", val |-> 0]
    ELSE IF lt = "True" THEN [raised |-> "InvalidTimeSteps", val |-> 0]
    ELSE LET n == PyInt(v) IN
         IF n.raised = "ValueError" THEN [raised |-> "InvalidTimeSteps", val |-> 0]
         ELSE n

(***************************************************************************)
(* three_state_lookup_table (lines 103-135).                               *)
(***************************************************************************)
neighborhoods ==
    << <<0, 0>>, <<0, 1>>, <<0, 2>>, <<1, 0>>, <<1, 1>>, <<1, 2>>,
       <<2, 0>>, <<2, 1>>, <<2, 2>> >>

\* str(r) of a remainder and int(ch) of a digit character.
PyStr(r) == CASE r = 0 -> "0" [] r = 1 -> "1" [] r = 2 -> "2"
PyIntOfChar(ch) == CASE ch = "0" -> 0 [] ch = "1" -> 1 [] ch = "2" -> 2

reversed(s) == [i \in 1..Len(s) |-> s[Len(s) + 1 - i]]

\* A plausible slip: the loop left one division early (while rule_number > 1).
RECURSIVE TernNumsStopsAtOne(_, _)
TernNumsStopsAtOne(n, tern_nums) ==
    IF n > 1 THEN TernNumsStopsAtOne(n \div 3, Append(tern_nums, PyStr(n % 3)))
    ELSE tern_nums

\* Lines 124-127: the remainders of repeated division, least significant first.
RECURSIVE TernNums(_, _)
TernNums(n, tern_nums) ==
    IF n > 0 THEN TernNums(n \div 3, Append(tern_nums, PyStr(n % 3)))
    ELSE tern_nums

\* A plausible slip: a field one character too narrow (width='8').
FormatWidth8(tern_num) ==
    IF Len(tern_num) >= Width - 1 THEN tern_num
    ELSE [i \in 1..(Width - 1 - Len(tern_num)) |-> "0"] \o tern_num

\* A plausible slip: the string used as it is, not padded.
FormatNoPad(tern_num) == tern_num

\* Lines 130-133: right-align in a field of Width characters, filled with "0".
Format(tern_num) ==
    IF Len(tern_num) >= Width THEN tern_num
    ELSE [i \in 1..(Width - Len(tern_num)) |-> "0"] \o tern_num

\* dict(zip(keys, values)): pairs up to the shorter length, later pairs win.
DictZip(keys, values) ==
    LET m == IF Len(keys) < Len(values) THEN Len(keys) ELSE Len(values) IN
    [k \in {keys[i] : i \in 1..m} |->
        values[CHOOSE i \in 1..m :
                 keys[i] = k /\ \A j \in 1..m : keys[j] = k => j <= i]]

\* A plausible slip: the digits zipped in the order of the padded string.
LookupTableUnreversed(rule) ==
    IF rule < 0 \/ rule > MaxRule
    THEN [raised |-> "RuleIndexOutOfRange", table |-> NoTable]
    ELSE LET in_ternary == Format(reversed(TernNums(rule, <<>>)))
         IN [raised |-> "none",
             table |-> DictZip(neighborhoods,
                               [i \in 1..Len(in_ternary) |->
                                   PyIntOfChar(in_ternary[i])])]

\* A plausible slip: the upper limit of the range check off by one.
LookupTableWideRange(rule) ==
    IF rule < 0 \/ rule > MaxRule + 1
    THEN [raised |-> "RuleIndexOutOfRange", table |-> NoTable]
    ELSE LET in_ternary == Format(reversed(TernNums(rule, <<>>)))
             digits == reversed(in_ternary)
         IN [raised |-> "none",
             table |-> DictZip(neighborhoods,
                               [i \in 1..Len(digits) |-> PyIntOfChar(digits[i])])]

three_state_lookup_table(rule) ==
    IF rule < 0 \/ rule > MaxRule
    THEN [raised |-> "RuleIndexOutOfRange", table |-> NoTable]
    ELSE LET tern_num == reversed(TernNums(rule, <<>>))
             in_ternary == Format(tern_num)
             digits == reversed(in_ternary)
         IN [raised |-> "none",
             table |-> DictZip(neighborhoods,
                               [i \in 1..Len(digits) |-> PyIntOfChar(digits[i])])]

(***************************************************************************)
(* The decoder of the script without functions (lines 32-51).              *)
(***************************************************************************)
\* Lines 35-38: the remainders of repeated division, least significant first.
RECURSIVE ScriptTernNums(_, _)
ScriptTernNums(n, tern_nums) ==
    IF n > 0 THEN ScriptTernNums(n \div 3, Append(tern_nums, PyStr(n % 3)))
    ELSE tern_nums

\* A plausible slip: the zeros put in front of the digits, not after them.
ScriptLookupTablePadsLeft(rule) ==
    LET joined == ScriptTernNums(rule, <<>>)
        padding == Width - Len(joined)
        in_ternary == IF Len(joined) # Width /\ padding > 0
                      THEN [i \in 1..padding |-> "0"] \o joined
                      ELSE joined
    IN [k \in {neighborhoods[i] : i \in 1..Width} |->
           in_ternary[CHOOSE i \in 1..Width : neighborhoods[i] = k]]

\* Lines 32-51: the digits joined as they come, zeros appended up to Width
\* characters ('0' * padding is empty for a padding below 1), and character
\* i stored for neighborhood i.  The outputs are characters; line 65 reads
\* them with int().
script_lookup_table(rule) ==
    LET joined == ScriptTernNums(rule, <<>>)
        padding == Width - Len(joined)
        in_ternary == IF Len(joined) # Width /\ padding > 0
                      THEN joined \o [i \in 1..padding |-> "0"]
                      ELSE joined
    IN [k \in {neighborhoods[i] : i \in 1..Width} |->
           in_ternary[CHOOSE i \in 1..Width : neighborhoods[i] = k]]

(***************************************************************************)
(* Lists.                                                                  *)
(***************************************************************************)
\* list[k] with Python's indexing: k counts from 0, a negative k from the end.
PyIndex(list, k) == IF k < 0 THEN list[Len(list) + k + 1] ELSE list[k + 1]

\* Lines 166-168 and 249-251: every element is one of 0, 1, 2.
OnlyStates(list) == \A i \in 1..Len(list) : list[i] \in {0, 1, 2}

(***************************************************************************)
(* three_state_spacetime_field (lines 141-190).                            *)
(***************************************************************************)
\* A plausible slip: the new row written over the row it is computed from.
RECURSIVE NewConfigurationInPlace(_, _, _, _, _)
NewConfigurationInPlace(table, current, length, i, new_configuration) ==
    IF i = length THEN current
    ELSE NewConfigurationInPlace(table,
            [current EXCEPT ![i + 1] =
                table[<<PyIndex(current, i - 1), PyIndex(current, i)>>]],
            length, i + 1, new_configuration)

\* Lines 179-185: the loop over the cells, i = 0 .. length - 1.
RECURSIVE NewConfiguration(_, _, _, _, _)
NewConfiguration(table, current, length, i, new_configuration) ==
    IF i = length THEN new_configuration
    ELSE NewConfiguration(table, current, length, i + 1,
            Append(new_configuration,
                   table[<<PyIndex(current, i - 1), PyIndex(current, i)>>]))

\* Lines 178-188: the loop over the time steps; every new row is a new list.
RECURSIVE FieldLoop(_, _, _, _, _, _, _)
FieldLoop(table, length, h, spacetime_field, current, k, n) ==
    IF k >= n THEN [raised |-> "none", heap |-> h, field |-> spacetime_field]
    ELSE LET new_configuration == NewConfiguration(table, h[current], length, 0, <<>>)
             h2 == Append(h, new_configuration)
         IN FieldLoop(table, length, h2, Append(spacetime_field, Len(h2)),
                      Len(h2), k + 1, n)

Failed(h, kind) == [raised |-> kind, heap |-> h, field |-> NoValue]

\* A plausible slip: the field started without the initial condition.
SpacetimeFieldNoRow0(rule, initial_condition, ts, h) ==
    LET n == CheckTimeSteps(ts) IN
    IF n.raised # "none" THEN Failed(h, n.raised)
    ELSE IF ~OnlyStates(h[initial_condition]) THEN Failed(h, "InvalidSymbol")
    ELSE LET lk == three_state_lookup_table(rule) IN
         IF lk.raised # "none" THEN Failed(h, lk.raised)
         ELSE LET h1 == Append(h, h[initial_condition])
              IN FieldLoop(lk.table, Len(h[initial_condition]), h1,
                           <<>>, Len(h1), 0, n.val)

\* A plausible slip: the check of the cells left out; the lookup of a
\* neighborhood with another value in it then raises KeyError.
SpacetimeFieldNoSymbolCheck(rule, initial_condition, ts, h) ==
    LET n == CheckTimeSteps(ts) IN
    IF n.raised # "none" THEN Failed(h, n.raised)
    ELSE LET lk == three_state_lookup_table(rule) IN
         IF lk.raised # "none" THEN Failed(h, lk.raised)
         ELSE IF ~OnlyStates(h[initial_condition]) /\ n.val > 0
              THEN Failed(h, "KeyError")
         ELSE LET h1 == Append(h, h[initial_condition])
              IN FieldLoop(lk.table, Len(h[initial_condition]), h1,
                           <<initial_condition>>, Len(h1), 0, n.val)

\* A plausible slip: an empty initial condition turned down.
SpacetimeFieldRejectsEmpty(rule, initial_condition, ts, h) ==
    LET n == CheckTimeSteps(ts) IN
    IF n.raised # "none" THEN Failed(h, n.raised)
    ELSE IF Len(h[initial_condition]) = 0 \/ ~OnlyStates(h[initial_condition])
         THEN Failed(h, "InvalidSymbol")
    ELSE LET lk == three_state_lookup_table(rule) IN
         IF lk.raised # "none" THEN Failed(h, lk.raised)
         ELSE LET h1 == Append(h, h[initial_condition])
              IN FieldLoop(lk.table, Len(h[initial_condition]), h1,
                           <<initial_condition>>, Len(h1), 0, n.val)

\* A plausible slip: the caller's list used as the running configuration and
\* written cell by cell, so that the call leaves the last row in it.
SpacetimeFieldInPlace(rule, initial_condition, ts, h) ==
    LET n == CheckTimeSteps(ts) IN
    IF n.raised # "none" THEN Failed(h, n.raised)
    ELSE IF ~OnlyStates(h[initial_condition]) THEN Failed(h, "InvalidSymbol")
    ELSE LET lk == three_state_lookup_table(rule) IN
         IF lk.raised # "none" THEN Failed(h, lk.raised)
         ELSE LET h1 == Append(h, h[initial_condition])
                  r == FieldLoop(lk.table, Len(h[initial_condition]), h1,
                                 <<initial_condition>>, Len(h1), 0, n.val)
              IN [r EXCEPT !.heap[initial_condition] = r.heap[Len(r.heap)]]

\* The whole call: the checks in the order of the code (time_steps, cells,
\* rule number), then the field with the caller's list itself as row 0
\* (line 174) and the evolution started from a copy of it (line 175).
three_state_spacetime_field(rule, initial_condition, ts, h) ==
    LET n == CheckTimeSteps(ts) IN
    IF n.raised # "none" THEN Failed(h, n.raised)
    ELSE IF ~OnlyStates(h[initial_condition]) THEN Failed(h, "InvalidSymbol")
    ELSE LET lk == three_state_lookup_table(rule) IN
         IF lk.raised # "none" THEN Failed(h, lk.raised)
         ELSE LET h1 == Append(h, h[initial_condition])
              IN FieldLoop(lk.table, Len(h[initial_condition]), h1,
                           <<initial_condition>>, Len(h1), 0, n.val)

(***************************************************************************)
(* The caller.                                                             *)
(***************************************************************************)
Init ==
    /\ pc = "start"
    /\ rule_number \in RuleArgs
    /\ heap \in {<<c>> : c \in Lists}
    /\ arg = NoArg
    /\ raised = "none"
    /\ lookup = NoValue
    /\ field = NoValue
    /\ lookup_table = NoValue
    /\ initial = NoValue
    /\ spacetime = NoValue
    /\ current_configuration = NoValue
    /\ self_length = NoValue
    /\ time_steps = NoValue
    /\ t = NoValue
    /\ c0 = NoValue
    /\ total = 0
    /\ mutations = 0
    /\ flat_lookup_table = NoValue
    /\ field_again = NoValue

InitTable ==
    /\ pc = "start"
    /\ rule_number \in AllRuleArgs
    /\ heap = << <<>> >>
    /\ arg = NoArg
    /\ raised = "none"
    /\ lookup = NoValue
    /\ field = NoValue
    /\ lookup_table = NoValue
    /\ initial = NoValue
    /\ spacetime = NoValue
    /\ current_configuration = NoValue
    /\ self_length = NoValue
    /\ time_steps = NoValue
    /\ t = NoValue
    /\ c0 = NoValue
    /\ total = 0
    /\ mutations = 0
    /\ flat_lookup_table = NoValue
    /\ field_again = NoValue

self_vars == <<lookup_table, initial, spacetime, current_configuration, self_length>>

\* lookup = three_state_lookup_table(rule_number), called directly.
call_lookup_table ==
    /\ pc = "start"
    /\ LET r == three_state_lookup_table(rule_number) IN
         /\ raised' = r.raised
         /\ lookup' = r.table
         /\ pc' = IF r.raised = "none" THEN "table_returned" ELSE "table_raised"
    /\ UNCHANGED <<rule_number, arg, heap, field, self_vars, time_steps, t, c0,
                   total, mutations>>
    /\ UNCHANGED <<flat_lookup_table, field_again>>

\* field = three_state_spacetime_field(rule_number, initial_condition, ts).
call_spacetime_field ==
    /\ pc = "start"
    /\ \E ts \in TimeStepsArgs :
         LET r == three_state_spacetime_field(rule_number, InitialCondition, ts, heap) IN
           /\ arg' = ts
           /\ raised' = r.raised
           /\ heap' = r.heap
           /\ field' = r.field
           /\ pc' = IF r.raised = "none" THEN "returned" ELSE "field_raised"
    /\ c0' = heap[InitialCondition]
    /\ UNCHANGED <<rule_number, lookup, self_vars, time_steps, t, total, mutations>>
    /\ UNCHANGED <<flat_lookup_table, field_again>>

\* A plausible slip: the running state the caller's list itself, not a copy.
InitNoCopy ==
    /\ pc = "start"
    /\ c0' = heap[InitialCondition]
    /\ IF ~OnlyStates(heap[InitialCondition])
       THEN /\ raised' = "InvalidSymbol"
            /\ pc' = "init_raised"
            /\ UNCHANGED <<heap, self_vars>>
       ELSE LET lk == three_state_lookup_table(rule_number) IN
            IF lk.raised # "none"
            THEN /\ raised' = lk.raised
                 /\ pc' = "init_raised"
                 /\ UNCHANGED <<heap, self_vars>>
            ELSE /\ raised' = "none"
                 /\ lookup_table' = lk.table
                 /\ initial' = InitialCondition
                 /\ spacetime' = <<InitialCondition>>
                 /\ heap' = Append(heap, heap[InitialCondition])
                 /\ current_configuration' = InitialCondition
                 /\ self_length' = Len(heap[InitialCondition])
                 /\ pc' = "ready"
    /\ UNCHANGED <<rule_number, arg, lookup, field, time_steps, t, total, mutations>>
    /\ UNCHANGED <<flat_lookup_table, field_again>>

\* CA = three_state_CA(rule_number, initial_condition): __init__, lines 249-257.
three_state_CA_init ==
    /\ pc = "start"
    /\ c0' = heap[InitialCondition]
    /\ IF ~OnlyStates(heap[InitialCondition])
       THEN /\ raised' = "InvalidSymbol"
            /\ pc' = "init_raised"
            /\ UNCHANGED <<heap, self_vars>>
       ELSE LET lk == three_state_lookup_table(rule_number) IN
            IF lk.raised # "none"
            THEN /\ raised' = lk.raised
                 /\ pc' = "init_raised"
                 /\ UNCHANGED <<heap, self_vars>>
            ELSE /\ raised' = "none"
                 /\ lookup_table' = lk.table
                 /\ initial' = InitialCondition
                 /\ spacetime' = <<InitialCondition>>
                 /\ heap' = Append(heap, heap[InitialCondition])
                 /\ current_configuration' = Len(heap) + 1
                 /\ self_length' = Len(heap[InitialCondition])
                 /\ pc' = "ready"
    /\ UNCHANGED <<rule_number, arg, lookup, field, time_steps, t, total, mutations>>
    /\ UNCHANGED <<flat_lookup_table, field_again>>

\* A plausible slip: every call starts the history again.
EvolveResets ==
    /\ pc = "ready"
    /\ \E ts \in TimeStepsArgs :
         LET n == CheckTimeSteps(ts) IN
           /\ n.raised = "none" => total + n.val <= MaxTotal
           /\ arg' = ts
           /\ raised' = n.raised
           /\ IF n.raised # "none"
              THEN UNCHANGED <<pc, time_steps, t, total, spacetime>>
              ELSE /\ pc' = "evolve_loop"
                   /\ time_steps' = n.val
                   /\ t' = 0
                   /\ total' = total + n.val
                   /\ spacetime' = <<current_configuration>>
    /\ UNCHANGED <<rule_number, heap, lookup, field, lookup_table, initial,
                   current_configuration, self_length, c0, mutations>>
    /\ UNCHANGED <<flat_lookup_table, field_again>>

\* A plausible slip: the history started again at the top of evolve, before
\* time_steps is checked.
EvolveResetsBeforeCheck ==
    /\ pc = "ready"
    /\ \E ts \in TimeStepsArgs :
         LET n == CheckTimeSteps(ts) IN
           /\ n.raised = "none" => total + n.val <= MaxTotal
           /\ arg' = ts
           /\ raised' = n.raised
           /\ spacetime' = <<initial>>
           /\ IF n.raised # "none"
              THEN UNCHANGED <<pc, time_steps, t, total>>
              ELSE /\ pc' = "evolve_loop"
                   /\ time_steps' = n.val
                   /\ t' = 0
                   /\ total' = total + n.val
    /\ UNCHANGED <<rule_number, heap, lookup, field, lookup_table, initial,
                   current_configuration, self_length, c0, mutations>>
    /\ UNCHANGED <<flat_lookup_table, field_again>>

\* CA.evolve(ts), lines 268-274: the check of time_steps; an exception
\* reaches the caller and leaves the simulator as it was.
evolve_call ==
    /\ pc = "ready"
    /\ \E ts \in TimeStepsArgs :
         LET n == CheckTimeSteps(ts) IN
           /\ n.raised = "none" => total + n.val <= MaxTotal
           /\ arg' = ts
           /\ raised' = n.raised
           /\ IF n.raised # "none"
              THEN UNCHANGED <<pc, time_steps, t, total>>
              ELSE /\ pc' = "evolve_loop"
                   /\ time_steps' = n.val
                   /\ t' = 0
                   /\ total' = total + n.val
    /\ UNCHANGED <<rule_number, heap, lookup, field, self_vars, c0, mutations>>
    /\ UNCHANGED <<flat_lookup_table, field_again>>

\* A plausible slip: the new row put in place of the last one.
EvolveStepOverwrites ==
    /\ pc = "evolve_loop"
    /\ t < time_steps
    /\ LET new_configuration ==
             NewConfiguration(lookup_table, heap[current_configuration],
                              self_length, 0, <<>>)
       IN /\ heap' = Append(heap, new_configuration)
          /\ current_configuration' = Len(heap) + 1
          /\ spacetime' = [spacetime EXCEPT ![Len(spacetime)] = Len(heap) + 1]
    /\ t' = t + 1
    /\ UNCHANGED <<pc, rule_number, arg, raised, lookup, field, lookup_table,
                   initial, self_length, time_steps, c0, total, mutations>>
    /\ UNCHANGED <<flat_lookup_table, field_again>>

\* A plausible slip: the position of the neighborhood in the list of
\* neighborhoods appended, not the table's output for it.
EvolveStepAppendsIndex ==
    /\ pc = "evolve_loop"
    /\ t < time_steps
    /\ LET new_configuration ==
             [i \in 1..self_length |->
                 3 * PyIndex(heap[current_configuration], i - 2)
                   + PyIndex(heap[current_configuration], i - 1)]
       IN /\ heap' = Append(heap, new_configuration)
          /\ current_configuration' = Len(heap) + 1
          /\ spacetime' = Append(spacetime, Len(heap) + 1)
    /\ t' = t + 1
    /\ UNCHANGED <<pc, rule_number, arg, raised, lookup, field, lookup_table,
                   initial, self_length, time_steps, c0, total, mutations>>
    /\ UNCHANGED <<flat_lookup_table, field_again>>

\* A plausible slip: the loop over the cells started at 1, to keep i - 1
\* from being negative.
EvolveStepShortRow ==
    /\ pc = "evolve_loop"
    /\ t < time_steps
    /\ LET new_configuration ==
             IF self_length = 0 THEN <<>>
             ELSE NewConfiguration(lookup_table, heap[current_configuration],
                                   self_length, 1, <<>>)
       IN /\ heap' = Append(heap, new_configuration)
          /\ current_configuration' = Len(heap) + 1
          /\ spacetime' = Append(spacetime, Len(heap) + 1)
    /\ t' = t + 1
    /\ UNCHANGED <<pc, rule_number, arg, raised, lookup, field, lookup_table,
                   initial, self_length, time_steps, c0, total, mutations>>
    /\ UNCHANGED <<flat_lookup_table, field_again>>

\* A plausible slip: the new row appended but current_configuration
\* not moved on to it.
EvolveStepKeepsCurrent ==
    /\ pc = "evolve_loop"
    /\ t < time_steps
    /\ LET new_configuration ==
             NewConfiguration(lookup_table, heap[current_configuration],
                              self_length, 0, <<>>)
       IN /\ heap' = Append(heap, new_configuration)
          /\ current_configuration' = current_configuration
          /\ spacetime' = Append(spacetime, Len(heap) + 1)
    /\ t' = t + 1
    /\ UNCHANGED <<pc, rule_number, arg, raised, lookup, field, lookup_table,
                   initial, self_length, time_steps, c0, total, mutations>>
    /\ UNCHANGED <<flat_lookup_table, field_again>>

\* Lines 276-286: one pass of evolve's loop over the time steps.
evolve_step ==
    /\ pc = "evolve_loop"
    /\ t < time_steps
    /\ LET new_configuration ==
             NewConfiguration(lookup_table, heap[current_configuration],
                              self_length, 0, <<>>)
       IN /\ heap' = Append(heap, new_configuration)
          /\ current_configuration' = Len(heap) + 1
          /\ spacetime' = Append(spacetime, Len(heap) + 1)
    /\ t' = t + 1
    /\ UNCHANGED <<pc, rule_number, arg, raised, lookup, field, lookup_table,
                   initial, self_length, time_steps, c0, total, mutations>>
    /\ UNCHANGED <<flat_lookup_table, field_again>>

\* The loop of evolve is over and the call returns; its locals are gone.
evolve_return ==
    /\ pc = "evolve_loop"
    /\ t >= time_steps
    /\ pc' = "ready"
    /\ time_steps' = NoValue
    /\ t' = NoValue
    /\ UNCHANGED <<rule_number, arg, raised, heap, lookup, field, self_vars,
                   c0, total, mutations>>
    /\ UNCHANGED <<flat_lookup_table, field_again>>

\* initial_condition[i] = v by the caller, who still holds the list, after
\* the field was returned or the simulator was made: a cell is set to the
\* state after the one it holds.
mutate_initial_condition ==
    /\ pc \in {"returned", "ready"}
    /\ mutations < MaxMutations
    /\ \E i \in 1..Len(heap[InitialCondition]) :
         heap' = [heap EXCEPT ![InitialCondition][i] = (@ + 1) % 3]
    /\ mutations' = mutations + 1
    /\ UNCHANGED <<pc, rule_number, arg, raised, lookup, field, self_vars,
                   time_steps, t, c0, total>>
    /\ UNCHANGED <<flat_lookup_table, field_again>>

\* The script's decoder run on the rule number the function has decoded.
run_script_decoder ==
    /\ pc = "table_returned"
    /\ flat_lookup_table' = script_lookup_table(rule_number)
    /\ pc' = "both_decoded"
    /\ UNCHANGED <<rule_number, arg, raised, heap, lookup, field, self_vars,
                   time_steps, t, c0, total, mutations, field_again>>

\* three_state_spacetime_field called once more with the arguments of the
\* call that has returned: the same rule number, list and time_steps.
call_spacetime_field_again ==
    /\ pc = "returned"
    /\ LET r == three_state_spacetime_field(rule_number, InitialCondition, arg, heap) IN
         /\ raised' = r.raised
         /\ heap' = r.heap
         /\ field_again' = r.field
         /\ pc' = IF r.raised = "none" THEN "returned_again" ELSE "field_raised"
    /\ UNCHANGED <<rule_number, arg, lookup, field, self_vars, time_steps, t, c0,
                   total, mutations, flat_lookup_table>>

Next ==
    \/ call_lookup_table
    \/ call_spacetime_field
    \/ call_spacetime_field_again
    \/ three_state_CA_init
    \/ evolve_call
    \/ evolve_step
    \/ evolve_return
    \/ mutate_initial_condition

Spec == Init /\ [][Next]_vars

\* The decoder alone, on every rule number.
NextTable ==
    \/ call_lookup_table
    \/ run_script_decoder

SpecTable == InitTable /\ [][NextTable]_vars

(***************************************************************************)
(* Reference definitions the properties are stated with.                   *)
(***************************************************************************)
RECURSIVE Pow3(_)
Pow3(j) == IF j = 0 THEN 1 ELSE 3 * Pow3(j - 1)

\* The base-3 digit of weight 3^j of n.
Digit(n, j) == (n \div Pow3(j)) % 3

\* The contents of the lists a list of references names.
RowsOf(h, refs) == [k \in 1..Len(refs) |-> h[refs[k]]]
Rows(refs) == RowsOf(heap, refs)

\* The rule applied to cell i (counted from 1) of a row, the left neighbour
\* taken modulo the length of the row.
RefCell(table, row, i) == table[<<row[((i - 2) % Len(row)) + 1], row[i]>>]

RefStep(table, row) == [i \in 1..Len(row) |-> RefCell(table, row, i)]

RECURSIVE RefRow(_, _, _)
RefRow(table, c, k) == IF k = 0 THEN c ELSE RefStep(table, RefRow(table, c, k - 1))

\* Every row but the first follows from the row before it by the rule.
EachRowFromTheLast(rows, table) ==
    \A k \in 1..(Len(rows) - 1) :
        /\ Len(rows[k + 1]) = Len(rows[k])
        /\ \A i \in 1..Len(rows[k]) : rows[k + 1][i] = RefCell(table, rows[k], i)

IsPrefix(a, b) == Len(a) <= Len(b) /\ \A k \in 1..Len(a) : a[k] = b[k]

\* The caller's list holds what it held when it was passed.
CallerListUntouched == heap[InitialCondition] = c0

SimulatorExists == pc \in {"ready", "evolve_loop"}

(***************************************************************************)
(* C1                                                                      *)
(***************************************************************************)
\* C1 as stated: for every rule number in range, the digit at position k of
\* the 9-digit ternary string, most significant first (the digit of weight
\* 3^(8-k)), is the output of the k-th neighborhood in lexicographic order.
C1_MostSignificantFirst ==
    pc = "table_returned" =>
        \A k \in 0..(Width - 1) :
            lookup[neighborhoods[k + 1]] = Digit(rule_number, Width - 1 - k)

\* C1 as the code has it: for every rule number in range, the k-th
\* neighborhood in lexicographic order gets the digit of weight 3^k, that is
\* the digit at position 8-k of the string read most significant first; so
\* the outputs d[0..8] of the table are the one assignment with
\* sum of d[k]*3^k = rule number.
C1_LeastSignificantFirst ==
    pc = "table_returned" =>
        /\ DOMAIN lookup = {neighborhoods[k + 1] : k \in 0..(Width - 1)}
        /\ \A k \in 0..(Width - 1) :
              lookup[neighborhoods[k + 1]] = Digit(rule_number, k)

\* Rule 8711 is 102221122 in base 3: (0,0) gets its last digit, (2,2) its first.
C1_Witness ==
    /\ pc = "table_returned"
    /\ rule_number = 8711
    /\ lookup[<<0, 0>>] = 2
    /\ lookup[<<2, 1>>] = 0
    /\ lookup[<<2, 2>>] = 1

(***************************************************************************)
(* C2                                                                      *)
(***************************************************************************)
\* C2: in the field three_state_spacetime_field returns, and in the history
\* of a simulator, every cell i of row t+1 is the table's output for (cell
\* (i-1) mod L of row t, cell i of row t): the left neighbour of cell 0 is
\* the last cell of row t, and only row t is read.
C2_RowsFollowRule ==
    /\ (pc = "returned" /\ CallerListUntouched) =>
          EachRowFromTheLast(Rows(field), three_state_lookup_table(rule_number).table)
    /\ (SimulatorExists /\ CallerListUntouched) =>
          EachRowFromTheLast(Rows(spacetime), lookup_table)

\* Rule 8711 on [1,0,2]: cell 0 of row 1 is the output for (2,1), the last
\* cell being its left neighbour.
C2_Witness ==
    /\ pc = "returned"
    /\ rule_number = 8711
    /\ c0 = <<1, 0, 2>>
    /\ CallerListUntouched
    /\ Len(field) = 3
    /\ heap[field[2]] = <<0, 1, 1>>

(***************************************************************************)
(* C3                                                                      *)
(***************************************************************************)
\* C3: a call of three_state_spacetime_field with a non-negative integer
\* time_steps n that returns, returns n + 1 rows, and row 0 is the initial
\* condition as passed.
C3_RowCount ==
    pc = "returned" =>
        /\ arg.type = "int" => Len(field) = arg.val + 1
        /\ CallerListUntouched => heap[field[1]] = c0

C3_Witness ==
    /\ pc = "returned"
    /\ arg = PyIntVal(2)
    /\ Len(field) = 3
    /\ Len(c0) = 2
    /\ heap[field[1]] = c0

(***************************************************************************)
(* C4                                                                      *)
(***************************************************************************)
\* C4: once three_state_spacetime_field has returned or a simulator has been
\* made, row 0 of the field holds the initial condition as it was passed,
\* whatever the caller writes to its list afterwards.
C4_Row0Isolated ==
    /\ pc = "returned" => heap[field[1]] = c0
    /\ SimulatorExists => heap[spacetime[1]] = c0

(***************************************************************************)
(* C5                                                                      *)
(***************************************************************************)
\* C5: whatever the caller writes to its list after a simulator was made,
\* current_configuration and every row evolve has appended are those derived
\* from the list's contents at construction.
C5_RunningStateIsCopy ==
    SimulatorExists =>
        /\ heap[current_configuration] = RefRow(lookup_table, c0, Len(spacetime) - 1)
        /\ \A k \in 2..Len(spacetime) :
              heap[spacetime[k]] = RefRow(lookup_table, c0, k - 1)

\* The caller wrote to its list while the simulator had one row, and the
\* call of evolve that followed has appended the second.
C5_Witness ==
    /\ pc = "evolve_loop"
    /\ mutations = 1
    /\ ~CallerListUntouched
    /\ t = 1
    /\ Len(spacetime) = 2
    /\ Len(c0) = 3
    /\ rule_number = 8711

(***************************************************************************)
(* C6                                                                      *)
(***************************************************************************)
\* What C6 calls convertible to a non-negative integer: a non-negative int
\* or float, or the numeral of one.
NonNegativeConvertible(v) ==
    \/ v.type \in {"int", "float"} /\ v.cls = "finite" /\ v.val >= 0
    \/ v.type = "str" /\ v.cls = "numeral" /\ v.val >= 0

\* C6: a call of three_state_spacetime_field or of evolve whose time_steps is
\* negative or not convertible to a non-negative integer fails with
\* InvalidTimeSteps and nothing else; with any other time_steps the check of
\* time_steps raises nothing.
C6_TimeStepsError ==
    arg # NoArg =>
        IF NonNegativeConvertible(arg)
        THEN raised \in {"none", "InvalidSymbol", "RuleIndexOutOfRange"}
        ELSE raised = "InvalidTimeSteps"

(***************************************************************************)
(* C7                                                                      *)
(***************************************************************************)
\* C7: between calls, the history of a simulator whose accepted evolve calls
\* asked for n1 + ... + nk steps in all has 1 + n1 + ... + nk rows and equals,
\* row by row, the field three_state_spacetime_field returns for the same
\* rule number and initial condition with that sum as time_steps.
C7_Accumulates ==
    (pc = "ready" /\ CallerListUntouched) =>
        LET r == three_state_spacetime_field(rule_number, InitialCondition,
                                             PyIntVal(total), <<c0>>)
        IN /\ r.raised = "none"
           /\ Len(spacetime) = 1 + total
           /\ Rows(spacetime) = [k \in 1..Len(r.field) |-> r.heap[r.field[k]]]

\* Three steps in at least two calls, the last of one step.
C7_Witness ==
    /\ pc = "ready"
    /\ CallerListUntouched
    /\ total = 3
    /\ arg = PyIntVal(1)
    /\ raised = "none"
    /\ Len(spacetime) = 4
    /\ rule_number = 8711
    /\ Len(c0) = 3

(***************************************************************************)
(* C8                                                                      *)
(***************************************************************************)
\* C8: every step of evolve (its check, each pass of its loop, its return)
\* leaves the history as it was or extends it: the rows before the step are
\* a prefix of the rows after it, as references and as contents.
C8_AppendOnly ==
    [][(SimulatorExists /\ mutations' = mutations) =>
          /\ IsPrefix(spacetime, spacetime')
          /\ IsPrefix(Rows(spacetime), RowsOf(heap', spacetime'))]_vars

\* A second pass of the loop has appended to a history of three rows.
C8_Witness ==
    /\ pc = "evolve_loop"
    /\ t = 2
    /\ Len(spacetime) = 4
    /\ Len(c0) = 3

(***************************************************************************)
(* C9                                                                      *)
(***************************************************************************)
FieldCalled == pc \in {"returned", "field_raised"}
InitCalled == pc \in {"ready", "evolve_loop", "init_raised"}

\* C9 as stated: with a cell outside {0,1,2} in the initial condition,
\* three_state_spacetime_field and the constructor fail with InvalidSymbol,
\* no row computed and nothing produced; with every cell in {0,1,2} they do
\* not fail with InvalidSymbol.
C9_InvalidSymbol ==
    (FieldCalled \/ InitCalled) =>
        IF OnlyStates(c0) THEN raised # "InvalidSymbol"
        ELSE /\ raised = "InvalidSymbol"
             /\ pc \in {"field_raised", "init_raised"}
             /\ Len(heap) = 1

\* C9 as the code has it: with a cell outside {0,1,2}, the constructor fails
\* with InvalidSymbol, and three_state_spacetime_field fails with
\* InvalidSymbol when time_steps is a non-negative int or finite float, and in the
\* check of time_steps, which comes first, otherwise; either way no row is
\* computed and nothing is produced.  With every cell in {0,1,2} neither
\* fails with InvalidSymbol.
C9_InvalidSymbolAfterTimeSteps ==
    (FieldCalled \/ InitCalled) =>
        IF OnlyStates(c0) THEN raised # "InvalidSymbol"
        ELSE /\ pc \in {"field_raised", "init_raised"}
             /\ Len(heap) = 1
             /\ pc = "init_raised" => raised = "InvalidSymbol"
             /\ pc = "field_raised" =>
                   IF arg.type \in {"int", "float"} /\ arg.cls = "finite" /\ arg.val >= 0
                   THEN raised = "InvalidSymbol"
                   ELSE raised \in {"InvalidTimeSteps", "TypeError", "OverflowError"}

C9_Witness ==
    /\ pc = "field_raised"
    /\ c0 = <<0, 1, 3>>
    /\ arg = PyIntVal(1)
    /\ rule_number = 8711
    /\ raised = "InvalidSymbol"

(***************************************************************************)
(* C10                                                                     *)
(***************************************************************************)
RuleInRange == rule_number \in 0..MaxRule

\* C10 as stated: with a rule number outside 0..19682 the decoder, the field
\* function and the constructor fail with RuleIndexOutOfRange, no table and
\* no row produced; with a rule number inside, the decoder returns a table.
C10_RuleOutOfRange ==
    /\ (pc # "start" /\ ~RuleInRange) =>
          /\ raised = "RuleIndexOutOfRange"
          /\ pc \in {"table_raised", "field_raised", "init_raised"}
          /\ Len(heap) = 1
    /\ (pc \in {"table_returned", "table_raised"} /\ RuleInRange) =>
          pc = "table_returned" /\ raised = "none"

\* C10 as the code has it: with a rule number outside 0..19682 the decoder
\* fails with RuleIndexOutOfRange; the constructor does when every cell is in
\* {0,1,2}, and the field function when moreover time_steps is a
\* non-negative int or finite float; otherwise they fail in those checks, which
\* come first.  No table and no row is produced.  With a rule number inside,
\* the decoder returns a table.
C10_RuleOutOfRangeAfterOtherChecks ==
    /\ (pc # "start" /\ ~RuleInRange) =>
          /\ pc \in {"table_raised", "field_raised", "init_raised"}
          /\ Len(heap) = 1
          /\ pc = "table_raised" => raised = "RuleIndexOutOfRange"
          /\ pc = "init_raised" =>
                raised = IF OnlyStates(c0) THEN "RuleIndexOutOfRange" ELSE "InvalidSymbol"
          /\ pc = "field_raised" =>
                IF arg.type \in {"int", "float"} /\ arg.cls = "finite" /\ arg.val >= 0
                THEN raised = IF OnlyStates(c0) THEN "RuleIndexOutOfRange"
                              ELSE "InvalidSymbol"
                ELSE raised \in {"InvalidTimeSteps", "TypeError", "OverflowError"}
    /\ (pc \in {"table_returned", "table_raised"} /\ RuleInRange) =>
          pc = "table_returned" /\ raised = "none"

C10_Witness ==
    /\ pc = "field_raised"
    /\ rule_number = MaxRule + 1
    /\ c0 = <<0, 1, 2>>
    /\ arg = PyIntVal(1)
    /\ raised = "RuleIndexOutOfRange"

(***************************************************************************)
(* C11                                                                     *)
(***************************************************************************)
InStates(row) == \A i \in 1..Len(row) : row[i] \in {0, 1, 2}

\* C11: in a run started from a rule number in range and a list over
\* {0,1,2}, every cell of every row the program has computed and of the
\* current configuration is in {0,1,2}, and so is every cell of row 0 while
\* the caller has not written to its list.
C11_CellsAreStates ==
    /\ pc = "returned" =>
          /\ \A k \in 2..Len(field) : InStates(heap[field[k]])
          /\ CallerListUntouched => InStates(heap[field[1]])
    /\ SimulatorExists =>
          /\ InStates(heap[current_configuration])
          /\ \A k \in 2..Len(spacetime) : InStates(heap[spacetime[k]])
          /\ CallerListUntouched => InStates(heap[spacetime[1]])

\* A call of evolve has run its two passes on [2,1,0] under rule 8711.
C11_Witness ==
    /\ pc = "evolve_loop"
    /\ rule_number = 8711
    /\ c0 = <<2, 1, 0>>
    /\ time_steps = 2
    /\ t = 2
    /\ Len(spacetime) = 3

(***************************************************************************)
(* C12                                                                     *)
(***************************************************************************)
\* C12: every row the program has computed and the current configuration
\* have the length of the initial condition as passed, whatever the number
\* of steps, and so has row 0 while the caller has not written to its list.
C12_RowLengths ==
    /\ pc = "returned" =>
          /\ \A k \in 2..Len(field) : Len(heap[field[k]]) = Len(c0)
          /\ CallerListUntouched => Len(heap[field[1]]) = Len(c0)
    /\ SimulatorExists =>
          /\ self_length = Len(c0)
          /\ Len(heap[current_configuration]) = Len(c0)
          /\ \A k \in 2..Len(spacetime) : Len(heap[spacetime[k]]) = Len(c0)
          /\ CallerListUntouched => Len(heap[spacetime[1]]) = Len(c0)

\* Three steps on a list of three cells, in more than one call.
C12_Witness ==
    /\ pc = "ready"
    /\ Len(c0) = 3
    /\ total = 3
    /\ Len(spacetime) = 4
    /\ Len(heap[spacetime[4]]) = 3

(***************************************************************************)
(* C13                                                                     *)
(***************************************************************************)
AllNeighborhoods == {<<a, b>> : a \in {0, 1, 2}, b \in {0, 1, 2}}

\* C13: for every rule number in range the loop of the decoder ends with at
\* most 9 digits, and the table returned has exactly 9 entries, one for each
\* pair over {0,1,2}, each with an output in {0,1,2}.
C13_NineEntries ==
    pc = "table_returned" =>
        /\ Len(TernNums(rule_number, <<>>)) <= Width
        /\ DOMAIN lookup = AllNeighborhoods
        /\ Cardinality(DOMAIN lookup) = 9
        /\ \A nb \in DOMAIN lookup : lookup[nb] \in {0, 1, 2}

\* Rule 5 has two digits: the other seven entries come from the padding.
C13_Witness ==
    /\ pc = "table_returned"
    /\ rule_number = 5
    /\ Len(TernNums(rule_number, <<>>)) = 2
    /\ Cardinality(DOMAIN lookup) = 9
    /\ lookup[<<0, 0>>] = 2
    /\ lookup[<<0, 1>>] = 1
    /\ lookup[<<2, 2>>] = 0

(***************************************************************************)
(* C14                                                                     *)
(***************************************************************************)
\* C14: the table of rule 0 gives 0 for each of the 9 neighborhoods, and the
\* table of rule 19682 gives 2 for each of them.
C14_ExtremeRules ==
    (pc = "table_returned" /\ rule_number \in {0, MaxRule}) =>
        /\ DOMAIN lookup = AllNeighborhoods
        /\ \A nb \in AllNeighborhoods :
              lookup[nb] = IF rule_number = 0 THEN 0 ELSE 2

\* Rule 0, for which the loop of the decoder yields no digit at all.
C14_Witness ==
    /\ pc = "table_returned"
    /\ rule_number = 0
    /\ TernNums(rule_number, <<>>) = <<>>
    /\ lookup[<<1, 1>>] = 0

(***************************************************************************)
(* C15                                                                     *)
(***************************************************************************)
\* The tables of all the rule numbers in range.
AllTables == {three_state_lookup_table(r).table : r \in 0..MaxRule}

\* C15: the tables of the rule numbers in 0..19682 are as many as the rule
\* numbers, so no two rule numbers have the same table; the table returned
\* for a rule number is one of them.
C15_Injective ==
    pc = "table_returned" =>
        /\ lookup \in AllTables
        /\ Cardinality(AllTables) = MaxRule + 1

\* Rules 0 and 1 differ in the last digit only, the output for (0,0).
C15_Witness ==
    /\ pc = "table_returned"
    /\ rule_number = 1
    /\ lookup[<<0, 0>>] = 1
    /\ lookup # three_state_lookup_table(0).table
    /\ \A nb \in AllNeighborhoods \ {<<0, 0>>} :
          lookup[nb] = three_state_lookup_table(0).table[nb]

(***************************************************************************)
(* C16                                                                     *)
(***************************************************************************)
\* C16: with an initial condition of length 0, a rule number in range and an
\* integer time_steps n >= 0, three_state_spacetime_field raises nothing and
\* returns n + 1 rows, all empty; the constructor raises nothing, evolve(n)
\* raises nothing, and between calls the history has one row more than the
\* steps asked for, all empty.
C16_EmptyConfiguration ==
    /\ (FieldCalled /\ Len(c0) = 0 /\ RuleInRange
            /\ arg.type = "int" /\ arg.val >= 0) =>
          /\ pc = "returned"
          /\ raised = "none"
          /\ Len(field) = arg.val + 1
          /\ \A k \in 2..Len(field) : heap[field[k]] = <<>>
          /\ CallerListUntouched => heap[field[1]] = <<>>
    /\ (InitCalled /\ Len(c0) = 0 /\ RuleInRange) =>
          /\ SimulatorExists
          /\ (arg.type = "int" /\ arg.val >= 0) => raised = "none"
          /\ pc = "ready" => Len(spacetime) = 1 + total
          /\ heap[current_configuration] = <<>>
          /\ \A k \in 2..Len(spacetime) : heap[spacetime[k]] = <<>>
          /\ CallerListUntouched => heap[spacetime[1]] = <<>>

C16_Witness ==
    /\ pc = "returned"
    /\ c0 = <<>>
    /\ arg = PyIntVal(2)
    /\ Len(field) = 3
    /\ heap[field[3]] = <<>>

(***************************************************************************)
(* C17                                                                     *)
(***************************************************************************)
\* C17: a second call of three_state_spacetime_field with the rule number,
\* the list and the time_steps of a call that has returned, the caller not
\* having written to the list, returns a field equal to the first, row by
\* row, in rows that are lists of its own.
C17_Deterministic ==
    (pc = "returned_again" /\ mutations = 0) =>
        /\ Len(field_again) = Len(field)
        /\ Rows(field_again) = Rows(field)
        /\ \A k \in 2..Len(field) : field_again[k] # field[k]

C17_Witness ==
    /\ pc = "returned_again"
    /\ mutations = 0
    /\ rule_number = 8711
    /\ c0 = <<1, 0, 2>>
    /\ Len(field_again) = 3
    /\ heap[field_again[3]] = <<1, 2, 2>>

(***************************************************************************)
(* C18                                                                     *)
(***************************************************************************)
\* The table of the script with its outputs read as integers (line 65).
ScriptTableAsInts(rule) ==
    LET tbl == script_lookup_table(rule)
    IN [nb \in DOMAIN tbl |-> PyIntOfChar(tbl[nb])]

\* The rule numbers in range on which the two decoders differ.
DifferingRules ==
    {r \in 0..MaxRule : ScriptTableAsInts(r) # three_state_lookup_table(r).table}

\* C18 as stated: the script and three_state_lookup_table give the digits to
\* the neighborhoods in different orders, so that on most rule numbers in
\* 0..19682 their tables, outputs compared as integers, differ.
C18_MostlyDiffer ==
    pc = "both_decoded" => 2 * Cardinality(DifferingRules) > MaxRule + 1

\* C18 as the code has it: the script and three_state_lookup_table both give
\* the digit of weight 3^k to the k-th neighborhood (the script by appending
\* the zeros, the function by reversing the padded string again), so that on
\* every rule number in 0..19682 their tables, outputs compared as integers,
\* are equal.
C18_DecodersAgree ==
    pc = "both_decoded" =>
        /\ DOMAIN flat_lookup_table = DOMAIN lookup
        /\ \A nb \in DOMAIN lookup : PyIntOfChar(flat_lookup_table[nb]) = lookup[nb]
        /\ \A k \in 0..(Width - 1) :
              PyIntOfChar(flat_lookup_table[neighborhoods[k + 1]])
                  = Digit(rule_number, k)

\* Rule 8711, the one the script runs: not a palindrome in base 3.
C18_Witness ==
    /\ pc = "both_decoded"
    /\ rule_number = 8711
    /\ flat_lookup_table[<<0, 0>>] = "2"
    /\ flat_lookup_table[<<2, 2>>] = "1"
    /\ lookup[<<0, 0>>] = 2
    /\ lookup[<<2, 2>>] = 1

(***************************************************************************)
(* C19                                                                     *)
(***************************************************************************)
\* C19: a call of evolve with a negative time_steps raises InvalidTimeSteps
\* and leaves spacetime, current_configuration, lookup_table and every list
\* as they were, the simulator ready for the next call; and whenever a call
\* has been answered, the history has one row more than the steps asked for
\* by the calls that were accepted, so an accepted evolve(n) after a failed
\* one appends exactly n rows.
C19_FailedCallChangesNothing ==
    [][/\ (pc = "ready" /\ mutations' = mutations
              /\ arg'.type \in {"int", "float"} /\ arg'.cls = "finite"
              /\ arg'.val < 0) =>
             /\ raised' = "InvalidTimeSteps"
             /\ pc' = "ready"
             /\ spacetime' = spacetime
             /\ current_configuration' = current_configuration
             /\ lookup_table' = lookup_table
             /\ heap' = heap
             /\ total' = total
       /\ pc' = "ready" => Len(spacetime') = 1 + total']_vars

\* evolve(-1) has failed on a simulator with a history of three rows.
C19_Witness ==
    /\ pc = "ready"
    /\ arg = PyIntVal(-1)
    /\ raised = "InvalidTimeSteps"
    /\ total = 2
    /\ Len(spacetime) = 3
    /\ current_configuration = spacetime[3]

(***************************************************************************)
(* C20                                                                     *)
(***************************************************************************)
\* C20: between calls, current_configuration is the last row of spacetime
\* once evolve has appended a row, and before that it equals row 0 in value
\* while the caller has not written to its list.
C20_CurrentIsLastRow ==
    pc = "ready" =>
        /\ Len(spacetime) > 1 => current_configuration = spacetime[Len(spacetime)]
        /\ (Len(spacetime) > 1 \/ CallerListUntouched) =>
              heap[current_configuration] = heap[spacetime[Len(spacetime)]]

\* Two steps in one call, the running state moved away from the input.
C20_Witness ==
    /\ pc = "ready"
    /\ arg = PyIntVal(2)
    /\ raised = "none"
    /\ total = 2
    /\ rule_number = 8711
    /\ Len(c0) = 3
    /\ heap[current_configuration] # c0
    /\ heap[current_configuration] = heap[spacetime[3]]

====
